---- MODULE Spec2Model ----
(***************************************************************************)
(* neural_style/utils.py: matSqrt, color_match, StyleLoader, init_vgg16.   *)
(*                                                                         *)
(* Tensor elements are exact real numbers of the form                      *)
(*     c1*sqrt(r1) + ... + ck*sqrt(rk)                                     *)
(* with rational ci and distinct square-free ri (ri = 1 for the rational   *)
(* part), plus the IEEE value NaN (0/0).  Every value the functions below  *)
(* compute on the inputs of this module is of that form, so arithmetic is  *)
(* exact and "within tolerance" is equality.                               *)
(***************************************************************************)
EXTENDS Integers, Sequences, FiniteSets, TLC

\* ------------------------------------------------------------------ numbers

Abs(n) == IF n < 0 THEN -n ELSE n

RECURSIVE GCDNat(_, _)
GCDNat(a, b) == IF b = 0 THEN a ELSE GCDNat(b, a % b)
GCD(a, b) == GCDNat(Abs(a), Abs(b))

\* The largest s with s*s dividing m (m >= 1), found by trial division from k.
RECURSIVE SqStrip(_, _, _)
SqStrip(m, k, acc) ==
    IF k * k > m THEN acc
    ELSE IF m % (k * k) = 0 THEN SqStrip(m \div (k * k), k, acc * k)
    ELSE SqStrip(m, k + 1, acc)

SqPart(m) == SqStrip(m, 2, 1)

\* A term <<n, d, r>> is (n/d)*sqrt(r): d > 0, gcd(n, d) = 1, r square-free.
Term(n, d, r) ==
    LET s  == IF r < 4 THEN 1 ELSE SqPart(r)
        nn == n * s
        g  == IF d = 1 THEN 1 ELSE GCD(nn, d)
    IN  <<nn \div g, d \div g, r \div (s * s)>>

\* A number is a set of terms with distinct radicands and non-zero coefficients.
Zero == {}
NaN == {<<0, 0, 0>>}
Rat(n, d) == IF n = 0 THEN Zero ELSE {Term(IF d < 0 THEN -n ELSE n, Abs(d), 1)}
Num(n) == Rat(n, 1)
One == Num(1)

IsRat(x) == x # NaN /\ \A t \in x : t[3] = 1

Coef(x, r) == IF \E t \in x : t[3] = r
              THEN LET t == CHOOSE u \in x : u[3] = r IN <<t[1], t[2]>>
              ELSE <<0, 1>>

Add(x, y) ==
    IF x = NaN \/ y = NaN THEN NaN
    ELSE IF x = Zero THEN y
    ELSE IF y = Zero THEN x
    ELSE LET sum(r) == LET a == Coef(x, r)
                           b == Coef(y, r)
                       IN  <<a[1] * b[2] + b[1] * a[2], a[2] * b[2], r>>
             sums   == {sum(r) : r \in {t[3] : t \in x \cup y}}
         IN  {Term(q[1], q[2], q[3]) : q \in {u \in sums : u[1] # 0}}

Neg(x) == IF x = NaN THEN NaN ELSE {<<-t[1], t[2], t[3]>> : t \in x}
Sub(x, y) == Add(x, Neg(y))

\* (n1/d1)sqrt(r1) * (n2/d2)sqrt(r2) = (n1 n2 g / d1 d2) sqrt((r1/g)(r2/g)), g = gcd(r1, r2)
MulTerm(t, u) ==
    LET g == GCD(t[3], u[3])
    IN  Term(t[1] * u[1] * g, t[2] * u[2], (t[3] \div g) * (u[3] \div g))

RECURSIVE SumSet(_)
SumSet(S) == IF S = {} THEN Zero
             ELSE LET x == CHOOSE y \in S : TRUE IN Add(x, SumSet(S \ {x}))

Mul(x, y) ==
    IF x = NaN \/ y = NaN THEN NaN
    ELSE IF x = Zero \/ y = Zero THEN Zero
    ELSE IF Cardinality(x) = 1 \/ Cardinality(y) = 1
         THEN {MulTerm(t, u) : t \in x, u \in y}
         ELSE SumSet({{MulTerm(t, u)} : t \in x, u \in y})

\* x / y for a single-term divisor y (every divisor the program meets is one);
\* 0/0 is NaN, as in IEEE arithmetic.
Div(x, y) ==
    IF x = NaN \/ y = NaN THEN NaN
    ELSE IF y = Zero THEN NaN
    ELSE LET u == CHOOSE t \in y : TRUE
             s == IF u[1] < 0 THEN -1 ELSE 1
         IN  Mul(x, {Term(s * u[2], Abs(u[1]) * u[3], u[3])})

\* The non-negative square root of a non-negative rational.
Sqrt(x) ==
    IF x = NaN THEN NaN
    ELSE IF x = Zero THEN Zero
    ELSE LET u == CHOOSE t \in x : TRUE IN {Term(1, u[2], u[1] * u[2])}

Sign(x) == IF x = Zero THEN 0
           ELSE LET u == CHOOSE t \in x : TRUE IN IF u[1] < 0 THEN -1 ELSE 1

\* a > b for rationals a, b
RatGreater(a, b) == LET p == Coef(a, 1)
                        q == Coef(b, 1)
                    IN  p[1] * q[2] > q[1] * p[2]

\* ----------------------------------------------------------------- tensors

\* A 2-d tensor is a sequence of rows; an image tensor is [shape, data] with its
\* elements in row-major order.
Rows(A) == Len(A)
Cols(A) == Len(A[1])
Numel(shape) == shape[1] * shape[2] * shape[3]

HasNaN(A) == \E i \in 1..Rows(A), j \in 1..Cols(A) : A[i][j] = NaN
AllNaN(A) == \A i \in 1..Rows(A), j \in 1..Cols(A) : A[i][j] = NaN
NaNMat(r, c) == [i \in 1..r |-> [j \in 1..c |-> NaN]]

\* t.view(3, -1)
View3(t) ==
    LET n == Numel(t.shape) \div 3
    IN  [i \in 1..3 |-> [j \in 1..n |-> t.data[(i - 1) * n + j]]]

\* A left as the (3, N) matrix it is, where line 163 gives it src's shape.
ViewFlat(A, t) ==
    [shape |-> <<Rows(A), Cols(A)>>,
     data  |-> [k \in 1..(Rows(A) * Cols(A)) |->
                  A[((k - 1) \div Cols(A)) + 1][((k - 1) % Cols(A)) + 1]]]

\* A.view_as(t): the elements of A in row-major order under t's shape.
ViewAs(A, t) ==
    [shape |-> t.shape,
     data  |-> [k \in 1..(Rows(A) * Cols(A)) |->
                  A[((k - 1) \div Cols(A)) + 1][((k - 1) % Cols(A)) + 1]]]

Transpose(A) == [j \in 1..Cols(A) |-> [i \in 1..Rows(A) |-> A[i][j]]]

RECURSIVE SumSeq(_, _)
SumSeq(s, k) == IF k = 0 THEN Zero ELSE Add(SumSeq(s, k - 1), s[k])

\* A @ B
MatMul(A, B) ==
    [i \in 1..Rows(A) |-> [j \in 1..Cols(B) |->
        SumSeq([k \in 1..Cols(A) |-> Mul(A[i][k], B[k][j])], Cols(A))]]

\* Elementwise operators with broadcasting of a size-1 dimension.
Bc(A, i, j) == A[IF Rows(A) = 1 THEN 1 ELSE i][IF Cols(A) = 1 THEN 1 ELSE j]
Max(a, b) == IF a > b THEN a ELSE b
EwMul(A, B) == [i \in 1..Max(Rows(A), Rows(B)) |-> [j \in 1..Max(Cols(A), Cols(B)) |->
                   Mul(Bc(A, i, j), Bc(B, i, j))]]
EwAdd(A, B) == [i \in 1..Max(Rows(A), Rows(B)) |-> [j \in 1..Max(Cols(A), Cols(B)) |->
                   Add(Bc(A, i, j), Bc(B, i, j))]]
EwSub(A, B) == [i \in 1..Max(Rows(A), Rows(B)) |-> [j \in 1..Max(Cols(A), Cols(B)) |->
                   Sub(Bc(A, i, j), Bc(B, i, j))]]
EwDiv(A, B) == [i \in 1..Max(Rows(A), Rows(B)) |-> [j \in 1..Max(Cols(A), Cols(B)) |->
                   Div(Bc(A, i, j), Bc(B, i, j))]]

\* torch.eye(3)
Eye3 == [i \in 1..3 |-> [j \in 1..3 |-> IF i = j THEN One ELSE Zero]]

\* v.diag() of a vector v
Diag(v) == [i \in 1..Len(v) |-> [j \in 1..Len(v) |-> IF i = j THEN v[i] ELSE Zero]]

\* A.mean(1, True)
Mean1(A) == [i \in 1..Rows(A) |-> <<Div(SumSeq(A[i], Cols(A)), Num(Cols(A)))>>]

\* A.std(1, True): the unbiased (N-1) estimator; NaN for a single column (0/0).
Std1(A) ==
    LET m == Mean1(A)
        d == EwSub(A, m)
    IN  [i \in 1..Rows(A) |->
           <<Sqrt(Div(SumSeq([j \in 1..Cols(A) |-> Mul(d[i][j], d[i][j])], Cols(A)),
                      Num(Cols(A) - 1)))>>]

\* ------------------------------------------------------- torch.svd, inverse

\* Directions of singular vectors: integer vectors with coprime entries of
\* magnitude at most MaxVec; a singular vector is such a vector normalised.
MaxVec == 2

Dirs == {v \in [1..3 -> (-MaxVec)..MaxVec] :
            /\ \E i \in 1..3 : v[i] # 0
            /\ GCD(GCD(v[1], v[2]), v[3]) = 1}

Dot(u, v) == u[1] * v[1] + u[2] * v[2] + u[3] * v[3]
Unit(v) == [i \in 1..3 |-> Div(Num(v[i]), Sqrt(Num(Dot(v, v))))]
MatVec(x, v) == [i \in 1..3 |-> SumSeq([j \in 1..3 |-> Mul(x[i][j], Num(v[j]))], 3)]

\* v is an eigenvector of x iff x v = Rayleigh(x, v) v.
Rayleigh(x, v) ==
    LET w == MatVec(x, v)
    IN  Div(SumSeq([i \in 1..3 |-> Mul(w[i], Num(v[i]))], 3), Num(Dot(v, v)))
IsEig(x, v) ==
    LET w == MatVec(x, v)
        l == Rayleigh(x, v)
    IN  IsRat(l) /\ \A i \in 1..3 : w[i] = Mul(l, Num(v[i]))

UnitOf == [v \in Dirs |-> Unit(v)]

OrthTo == [v \in Dirs |-> {w \in Dirs : Dot(v, w) = 0}]

\* Orthonormal eigenbases of x over Dirs, ordered by descending eigenvalue.
Frames(x) ==
    LET E  == {v \in Dirs : IsEig(x, v)}
        ev == [v \in E |-> Rayleigh(x, v)]
    IN  UNION {UNION {{<<a, b, c>> :
                         c \in {w \in (OrthTo[a] \cap OrthTo[b]) \cap E :
                                   ~RatGreater(ev[w], ev[b])}} :
                      b \in {w \in OrthTo[a] \cap E : ~RatGreater(ev[w], ev[a])}} :
               a \in E}

\* torch.svd(x).  For a finite symmetric positive-definite x the left and right
\* singular vectors coincide and the decompositions are the orthonormal
\* eigenbases (each a possible return value: signs, and the basis of a repeated
\* singular value, are the library's choice).  For an x holding NaN, LAPACK
\* either reports non-convergence (the call raises) or returns NaN.
SVD(x) ==
    IF HasNaN(x)
    THEN {[raised |-> TRUE,  U |-> <<>>, S |-> <<>>, V |-> <<>>],
          [raised |-> FALSE, U |-> NaNMat(3, 3), S |-> <<NaN, NaN, NaN>>,
           V |-> NaNMat(3, 3)]}
    ELSE {LET U == Transpose(<<UnitOf[f[1]], UnitOf[f[2]], UnitOf[f[3]]>>)
          IN  [raised |-> FALSE, U |-> U,
               S |-> <<Rayleigh(x, f[1]), Rayleigh(x, f[2]), Rayleigh(x, f[3])>>,
               V |-> U] : f \in Frames(x)}

\* def matSqrt(x): U,D,V = torch.svd(x); return U * (D.pow(0.5).diag()) * V.t()
\* ("*" on tensors is the elementwise product).
MatSqrtOf(usv) ==
    EwMul(EwMul(usv.U, Diag([i \in 1..3 |-> Sqrt(usv.S[i])])), Transpose(usv.V))

\* The outcomes of a call matSqrt(x): [raised, val].
MatSqrt(x) ==
    {IF usv.raised THEN [raised |-> TRUE, val |-> <<>>]
     ELSE [raised |-> FALSE, val |-> MatSqrtOf(usv)] : usv \in SVD(x)}

Det3(M) ==
    Add(Sub(Mul(M[1][1], Sub(Mul(M[2][2], M[3][3]), Mul(M[2][3], M[3][2]))),
            Mul(M[1][2], Sub(Mul(M[2][1], M[3][3]), Mul(M[2][3], M[3][1])))),
        Mul(M[1][3], Sub(Mul(M[2][1], M[3][2]), Mul(M[2][2], M[3][1]))))

\* Index i+1, i+2 cyclically in 1..3
Cyc(i, k) == ((i + k - 1) % 3) + 1

\* adj(M)[i][j] = cofactor(j, i)
Adj3(M) ==
    [i \in 1..3 |-> [j \in 1..3 |->
        Sub(Mul(M[Cyc(j, 1)][Cyc(i, 1)], M[Cyc(j, 2)][Cyc(i, 2)]),
            Mul(M[Cyc(j, 1)][Cyc(i, 2)], M[Cyc(j, 2)][Cyc(i, 1)]))]]

\* The outcomes of M.inverse(): LAPACK's getrf raises on an exactly singular M;
\* on an M holding NaN it raises or returns NaN.
Inverse(M) ==
    IF HasNaN(M)
    THEN {[raised |-> TRUE, val |-> <<>>], [raised |-> FALSE, val |-> NaNMat(3, 3)]}
    ELSE IF Det3(M) = Zero THEN {[raised |-> TRUE, val |-> <<>>]}
    ELSE {[raised |-> FALSE,
           val |-> LET d == Det3(M)
                       A == Adj3(M)
                   IN  [i \in 1..3 |-> [j \in 1..3 |-> Div(A[i][j], d)]]]}

\* ------------------------------------------------------------------ inputs

\* Test images: a bit pattern per channel (3 rows of H*W bits) under a shape;
\* channel c of the image at level l has the value (l + c - 1) at its lit pixels
\* and 0 elsewhere.  The patterns cover a grey image, negatively and positively
\* correlated channels, channels without correlation to the others, one-pixel
\* channels, and a constant channel, at 2 and at 4 pixels.
MaxLevel == 2

BasePatterns ==
    { [shape |-> <<3, 1, 2>>, bits |-> <<<<0, 1>>, <<0, 1>>, <<0, 1>>>>],
      [shape |-> <<3, 1, 2>>, bits |-> <<<<0, 1>>, <<1, 0>>, <<0, 1>>>>],
      [shape |-> <<3, 2, 1>>, bits |-> <<<<0, 1>>, <<0, 1>>, <<1, 0>>>>],
      [shape |-> <<3, 1, 2>>, bits |-> <<<<0, 1>>, <<0, 1>>, <<1, 1>>>>],
      [shape |-> <<3, 2, 2>>, bits |-> <<<<0, 0, 1, 1>>, <<0, 0, 1, 1>>, <<0, 0, 1, 1>>>>],
      [shape |-> <<3, 2, 2>>, bits |-> <<<<0, 0, 1, 1>>, <<0, 0, 1, 1>>, <<0, 1, 0, 1>>>>],
      [shape |-> <<3, 2, 2>>, bits |-> <<<<0, 0, 1, 1>>, <<1, 1, 0, 0>>, <<0, 1, 0, 1>>>>],
      [shape |-> <<3, 2, 2>>, bits |-> <<<<0, 0, 0, 1>>, <<0, 0, 1, 0>>, <<0, 1, 0, 0>>>>],
      [shape |-> <<3, 2, 2>>, bits |-> <<<<0, 0, 1, 1>>, <<0, 0, 0, 0>>, <<0, 1, 0, 1>>>>] }

MkImage(b, level) ==
    LET n == Numel(b.shape) \div 3
    IN  [shape |-> b.shape,
         data  |-> [k \in 1..(3 * n) |->
                      Num(b.bits[((k - 1) \div n) + 1][((k - 1) % n) + 1]
                          * (level + ((k - 1) \div n)))]]

Images == {MkImage(b, l) : b \in BasePatterns, l \in 1..MaxLevel}

\* ------------------------------------------------------------- color_match

\* The statistics with a zero deviation replaced by 1, which lines 143-149 do
\* not do.
StatsClamped(t) ==
    LET flat == View3(t)
        mean == Mean1(flat)
        std  == [i \in 1..3 |-> <<IF Std1(flat)[i][1] = Zero THEN One ELSE Std1(flat)[i][1]>>]
    IN  [mean |-> mean, std |-> std, norm |-> EwDiv(EwSub(flat, mean), std)]

\* Lines 140-149 for one image: flat = t.view(3,-1); mean = flat.mean(1, True);
\* std = flat.std(1, True); norm = (flat - mean) / std.
Stats(t) ==
    LET flat == View3(t)
        mean == Mean1(flat)
        std  == Std1(flat)
    IN  [mean |-> mean, std |-> std, norm |-> EwDiv(EwSub(flat, mean), std)]

\* norm @ norm.t() + eye(3)
CovEye(norm) == EwAdd(MatMul(norm, Transpose(norm)), Eye3)

\* The flag alone, where line 152 also asks torch.cuda.is_available().
CudaFlag(cuda, available) == cuda

\* cud = cuda and torch.cuda.is_available()
UseCuda(cuda, available) == cuda /\ available

\* The statistics of the test images and the outcomes of matSqrt on their
\* covariances, tabulated once.
StatsOf == [t \in Images |-> Stats(t)]
CovOf == [t \in Images |-> CovEye(StatsOf[t].norm)]
MatSqrtTable == [x \in {CovOf[t] : t \in Images} |-> MatSqrt(x)]

VARIABLES
    src, dst,       \* the input tensors: [shape, data, dev, base]
    cuda,           \* the cuda argument
    available,      \* torch.cuda.is_available() at the call
    pc,             \* position in color_match, "returned" or "raised"
    loc,            \* the local variables of color_match
    result,         \* the returned tensor
    mat_x,          \* matSqrt called on its own: the argument,
    mat_pc,         \*   "call", "returned" or "raised",
    mat_ret,        \*   and the returned matrix
    folder,         \* the names now in style_folder
    listed,         \* the names in style_folder when the StyleLoader was built
    files,          \* StyleLoader.files
    loader_cuda,    \* StyleLoader.cuda
    got,            \* i -> outcome of get(i), for the calls made
    size_ret,       \* <<n>> once size() returned n
    disk,           \* model_folder -> [t7, weight]: the two files of init_vgg16
    tally,          \* model_folder -> what the calls that returned have run
    last_init,      \* the last init_vgg16 call
    ncalls          \* init_vgg16 calls made

colorVars == <<src, dst, cuda, available, pc, loc, result>>
matVars == <<mat_x, mat_pc, mat_ret>>
loaderVars == <<folder, listed, files, loader_cuda, got, size_ret>>
vggVars == <<disk, tally, last_init, ncalls>>
vars == <<colorVars, matVars, loaderVars, vggVars>>

None == <<>>
NoLocals == [src_std |-> None, src_norm |-> None, dst_mean |-> None, dst_std |-> None,
             src_flat_cov_eye |-> None, dst_flat_cov_eye |-> None, cud |-> FALSE,
             sqrt_dst |-> None, sqrt_src |-> None, sqrt_src_inv |-> None,
             trans |-> None]

Devices == {"cpu", "cuda"}
Plain(t) == [shape |-> t.shape, data |-> t.data]
EyeDev(cud) == IF cud THEN "cuda" ELSE "cpu"

NoLoader == /\ folder = {} /\ listed = {} /\ files = <<>> /\ loader_cuda = FALSE
            /\ got = <<>> /\ size_ret = None
NoVgg == disk = <<>> /\ tally = <<>> /\ last_init = None /\ ncalls = 0

\* Tensors on an accelerator exist only where there is one.
Init ==
    /\ available \in BOOLEAN
    /\ cuda \in BOOLEAN
    /\ \E t \in Images, d \in Devices :
          /\ d = "cuda" => available
          /\ src = [shape |-> t.shape, data |-> t.data, dev |-> d, base |-> "src"]
    /\ \E t \in Images, d \in Devices :
          /\ d = "cuda" => available
          /\ dst = [shape |-> t.shape, data |-> t.data, dev |-> d, base |-> "dst"]
    /\ pc = "call"
    /\ loc = NoLocals
    /\ result = None
    /\ mat_x = None /\ mat_pc = "idle" /\ mat_ret = None
    /\ NoLoader
    /\ NoVgg

\* Lines 140-159.  torch.eye(3).cuda() is reached only under cud; adding the
\* identity to a product held on the other device raises.
Normalize ==
    /\ pc = "call"
    /\ LET s   == StatsOf[Plain(src)]
           d   == StatsOf[Plain(dst)]
           cud == UseCuda(cuda, available)
       IN  IF (cud /\ ~available) \/ src.dev # EyeDev(cud) \/ dst.dev # EyeDev(cud)
           THEN pc' = "raised" /\ loc' = [loc EXCEPT !.cud = cud]
           ELSE /\ pc' = "normalized"
                /\ loc' = [loc EXCEPT !.src_std = s.std, !.src_norm = s.norm,
                                       !.dst_mean = d.mean, !.dst_std = d.std,
                                       !.src_flat_cov_eye = CovOf[Plain(src)],
                                       !.dst_flat_cov_eye = CovOf[Plain(dst)],
                                       !.cud = cud]
    /\ UNCHANGED <<src, dst, cuda, available, result, matVars, loaderVars, vggVars>>

\* Line 161, left operand: matSqrt(dst_flat_cov_eye)
SqrtDst ==
    /\ pc = "normalized"
    /\ \E r \in MatSqrtTable[loc.dst_flat_cov_eye] :
          IF r.raised THEN pc' = "raised" /\ loc' = loc
          ELSE pc' = "sqrt_dst" /\ loc' = [loc EXCEPT !.sqrt_dst = r.val]
    /\ UNCHANGED <<src, dst, cuda, available, result, matVars, loaderVars, vggVars>>

\* Line 161: matSqrt(src_flat_cov_eye).  torch.svd is a function: on the matrix
\* of the first call it returns what it returned there.
SqrtSrc ==
    /\ pc = "sqrt_dst"
    /\ \E r \in MatSqrtTable[loc.src_flat_cov_eye] :
          /\ loc.src_flat_cov_eye = loc.dst_flat_cov_eye
                => ~r.raised /\ r.val = loc.sqrt_dst
          /\ IF r.raised THEN pc' = "raised" /\ loc' = loc
             ELSE pc' = "sqrt_src" /\ loc' = [loc EXCEPT !.sqrt_src = r.val]
    /\ UNCHANGED <<src, dst, cuda, available, result, matVars, loaderVars, vggVars>>

\* Line 161: .inverse()
Invert ==
    /\ pc = "sqrt_src"
    /\ \E r \in Inverse(loc.sqrt_src) :
          IF r.raised THEN pc' = "raised" /\ loc' = loc
          ELSE pc' = "inverted" /\ loc' = [loc EXCEPT !.sqrt_src_inv = r.val]
    /\ UNCHANGED <<src, dst, cuda, available, result, matVars, loaderVars, vggVars>>

\* matSqrt(dst_flat_cov_eye) * matSqrt(src_flat_cov_eye).inverse(): "*" and "@"
\* have the same precedence and group to the left, so the elementwise product
\* is taken first.
Transform(sqrt_dst, sqrt_src_inv) == EwMul(sqrt_dst, sqrt_src_inv)

\* The shift applied before the scaling, where line 162 scales first.
TransferShiftFirst(trans, src_norm, dst_std, dst_mean) ==
    EwMul(EwAdd(MatMul(trans, src_norm), dst_mean), dst_std)

\* Lines 161-162: (... @ src_norm) * dst_std + dst_mean
Transfer(trans, src_norm, dst_std, dst_mean) ==
    EwAdd(EwMul(MatMul(trans, src_norm), dst_std), dst_mean)

\* The result written into src and src returned, where lines 161-163 build a
\* new tensor.
ReturnInPlace ==
    /\ pc = "inverted"
    /\ LET T == Transform(loc.sqrt_dst, loc.sqrt_src_inv)
           v == ViewAs(Transfer(T, loc.src_norm, loc.dst_std, loc.dst_mean), src)
       IN  /\ loc' = [loc EXCEPT !.trans = T]
           /\ src' = [src EXCEPT !.data = v.data]
           /\ result' = src'
    /\ pc' = "returned"
    /\ UNCHANGED <<dst, cuda, available, matVars, loaderVars, vggVars>>

\* Lines 161-163: the result is a view of the new tensor src_flat_transfer.
Return ==
    /\ pc = "inverted"
    /\ LET T == Transform(loc.sqrt_dst, loc.sqrt_src_inv)
           v == ViewAs(Transfer(T, loc.src_norm, loc.dst_std, loc.dst_mean), src)
       IN  /\ loc' = [loc EXCEPT !.trans = T]
           /\ result' = [shape |-> v.shape, data |-> v.data, dev |-> src.dev,
                         base |-> "src_flat_transfer"]
    /\ pc' = "returned"
    /\ UNCHANGED <<src, dst, cuda, available, matVars, loaderVars, vggVars>>

Next == Normalize \/ SqrtDst \/ SqrtSrc \/ Invert \/ Return

Spec == Init /\ [][Next]_vars

\* color_match(s, d, c) as a function, where torch.cuda.is_available() is a:
\* the set of its outcomes [raised, val], lines 139-163.
ColorMatch(s, d, c, a) ==
    LET cud == UseCuda(c, a)
        st  == StatsOf[Plain(s)]
        dt  == StatsOf[Plain(d)]
        sc  == CovOf[Plain(s)]
        dc  == CovOf[Plain(d)]
        err == [raised |-> TRUE, val |-> None]
    IN  IF (cud /\ ~a) \/ s.dev # EyeDev(cud) \/ d.dev # EyeDev(cud) THEN {err}
        ELSE UNION {UNION {
               IF rd.raised \/ rs.raised THEN {err}
               ELSE {IF ri.raised THEN err
                     ELSE [raised |-> FALSE,
                           val |-> ViewAs(Transfer(Transform(rd.val, ri.val),
                                                   st.norm, dt.std, dt.mean), s)] :
                        ri \in Inverse(rs.val)} :
                 rs \in {r \in MatSqrtTable[sc] : sc = dc => r = rd}} :
               rd \in MatSqrtTable[dc]}

\* ------------------------------------------------------- matSqrt on its own

\* Symmetric integer matrices with entries of magnitude at most MaxEntry that
\* are positive definite (Sylvester's criterion) and whose singular vectors
\* lie in Dirs.
MaxEntry == 2

SymMatrices ==
    {[i \in 1..3 |-> [j \in 1..3 |-> IF i = j THEN d[i]
                                      ELSE o[IF i + j = 3 THEN 1 ELSE IF i + j = 4 THEN 2 ELSE 3]]] :
        d \in [1..3 -> 1..MaxEntry], o \in [1..3 -> (-MaxEntry)..MaxEntry]}

IntDet3(m) ==
    m[1][1] * (m[2][2] * m[3][3] - m[2][3] * m[3][2])
    - m[1][2] * (m[2][1] * m[3][3] - m[2][3] * m[3][1])
    + m[1][3] * (m[2][1] * m[3][2] - m[2][2] * m[3][1])

PosDef(m) == /\ m[1][1] > 0
             /\ m[1][1] * m[2][2] - m[1][2] * m[2][1] > 0
             /\ IntDet3(m) > 0

ToTensor(m) == [i \in 1..3 |-> [j \in 1..3 |-> Num(m[i][j])]]

NoColor == /\ src = None /\ dst = None /\ cuda = FALSE /\ available = FALSE
           /\ pc = "idle" /\ loc = NoLocals /\ result = None

InitSqrt ==
    /\ mat_x \in {x \in {ToTensor(m) : m \in {q \in SymMatrices : PosDef(q)}} : SVD(x) # {}}
    /\ mat_pc = "call"
    /\ mat_ret = None
    /\ NoColor
    /\ NoLoader
    /\ NoVgg

\* A call matSqrt(mat_x), lines 135-137.
MatSqrtCall ==
    /\ mat_pc = "call"
    /\ \E r \in MatSqrt(mat_x) :
          IF r.raised THEN mat_pc' = "raised" /\ mat_ret' = None
          ELSE mat_pc' = "returned" /\ mat_ret' = r.val
    /\ UNCHANGED <<mat_x, colorVars, loaderVars, vggVars>>

NextSqrt == MatSqrtCall

SpecSqrt == InitSqrt /\ [][NextSqrt]_vars

\* --------------------------------------------------------------- StyleLoader

MaxFiles == 3
MaxIndex == 3
Names == 1..MaxFiles

\* os.listdir returns the names in arbitrary order.
Listings(S) == {f \in [1..Cardinality(S) -> S] : \A a, b \in DOMAIN f : a # b => f[a] # f[b]}

\* After StyleLoader(style_folder, style_size, cuda), lines 115-119.
InitLoader ==
    /\ folder \in SUBSET Names
    /\ listed = folder
    /\ files \in Listings(folder)
    /\ loader_cuda \in BOOLEAN
    /\ available \in BOOLEAN
    /\ got = <<>>
    /\ size_ret = None
    /\ src = None /\ dst = None /\ cuda = FALSE
    /\ pc = "idle" /\ loc = NoLocals /\ result = None
    /\ mat_x = None /\ mat_pc = "idle" /\ mat_ret = None
    /\ NoVgg

\* The remainder of the magnitude, where line 122 takes Python's modulo.
GetIndexAbs(i, fs) == Abs(i) % Len(fs)

\* idx = i % len(self.files): ZeroDivisionError on an empty listing.
GetIndex(i, fs) == i % Len(fs)

\* get(i), lines 121-130: the file opened, and whether the call returned;
\* style.cuda() raises where there is no accelerator.
Get(i) ==
    /\ i \notin DOMAIN got
    /\ got' = (i :> (IF Len(files) = 0
                     THEN [file |-> 0, outcome |-> "ZeroDivisionError"]
                     ELSE [file |-> files[GetIndex(i, files) + 1],
                           outcome |-> IF loader_cuda /\ ~available
                                       THEN "cuda_error" ELSE "returned"])) @@ got
    /\ UNCHANGED <<folder, listed, files, loader_cuda, size_ret, colorVars, matVars, vggVars>>

\* size(), lines 132-133
SizeOf(fs) == Len(fs)

Size ==
    /\ size_ret' = <<SizeOf(files)>>
    /\ UNCHANGED <<folder, listed, files, loader_cuda, got, colorVars, matVars, vggVars>>

\* Another process puts a file into the folder.
AddFile ==
    /\ \E f \in Names \ folder : folder' = folder \cup {f}
    /\ UNCHANGED <<listed, files, loader_cuda, got, size_ret, colorVars, matVars, vggVars>>

NextLoader == (\E i \in (-MaxIndex)..MaxIndex : Get(i)) \/ Size \/ AddFile

SpecLoader == InitLoader /\ [][NextLoader]_vars

\* ---------------------------------------------------------------- init_vgg16

MaxFolders == 2
MaxCalls == 3
Folders == 1..MaxFolders

InitVgg ==
    /\ disk \in [Folders -> [t7 : {"absent", "valid", "corrupt"}, weight : BOOLEAN]]
    /\ tally = [f \in Folders |-> [downloads |-> 0, conversions |-> 0]]
    /\ last_init = None
    /\ ncalls = 0
    /\ NoColor
    /\ mat_x = None /\ mat_pc = "idle" /\ mat_ret = None
    /\ NoLoader

\* What os.system('wget ... -O vgg16.t7') leaves behind: the file, an empty or
\* partial file (wget creates its output file before it fails), or nothing
\* (the command could not run).  os.system does not raise.
Wget == {"valid", "corrupt", "absent"}

\* The conversion run whatever the folder holds, where line 103 asks first.
WeightMissingAlways(d) == TRUE

\* if not os.path.exists(os.path.join(model_folder, 'vgg16.weight')):
WeightMissing(d) == ~d.weight

\* if not os.path.exists(os.path.join(model_folder, 'vgg16.t7')):
T7Missing(d) == d.t7 = "absent"

\* init_vgg16(model_folder), lines 101-111.  load_lua raises on a missing or
\* unreadable vgg16.t7.
InitVgg16(f) ==
    /\ ncalls < MaxCalls
    /\ ncalls' = ncalls + 1
    /\ IF ~WeightMissing(disk[f])
       THEN /\ last_init' = [folder |-> f, before |-> disk[f], downloaded |-> FALSE,
                             converted |-> FALSE, outcome |-> "returned"]
            /\ UNCHANGED <<disk, tally>>
       ELSE \E w \in Wget :
              LET dl == T7Missing(disk[f])
                  t7 == IF dl THEN w ELSE disk[f].t7
                  ok == t7 = "valid"
              IN  /\ disk' = [disk EXCEPT ![f] = [t7 |-> t7, weight |-> ok]]
                  /\ last_init' = [folder |-> f, before |-> disk[f], downloaded |-> dl,
                                   converted |-> ok,
                                   outcome |-> IF ok THEN "returned" ELSE "raised"]
                  /\ tally' = IF ok
                              THEN [tally EXCEPT
                                      ![f].downloads = @ + (IF dl THEN 1 ELSE 0),
                                      ![f].conversions = @ + 1]
                              ELSE tally
    /\ UNCHANGED <<colorVars, matVars, loaderVars>>

NextVgg == \E f \in Folders : InitVgg16(f)

SpecVgg == InitVgg /\ [][NextVgg]_vars

\* ------------------------------------------------------------------ properties

Terminal == pc \in {"returned", "raised"}

\* Every channel of t has a non-zero, finite standard deviation.
NonDegenerate(t) ==
    \A c \in 1..3 : StatsOf[Plain(t)].std[c][1] \notin {Zero, NaN}

\* The channels of t whose pixels all hold one value.
ConstantChannels(t) ==
    {c \in 1..3 : \A j, k \in 1..Cols(View3(t)) : View3(t)[c][j] = View3(t)[c][k]}

\* The call got past lines 140-159 (the tensors are on the device of eye(3)).
PastNormalize == pc \notin {"call", "idle"} /\ loc.src_norm # None

\* C1: for every symmetric positive-definite x, matSqrt(x) returns a matrix R
\* whose matrix product with itself is x.
C1_SquareRoot == mat_pc = "returned" => MatMul(mat_ret, mat_ret) = mat_x

\* C2: color_match(x, x) returns a tensor equal to x (stated for the x whose
\* channels all have a non-zero deviation).
C2_SelfMatchIsIdentity ==
    (PastNormalize /\ Terminal /\ Plain(src) = Plain(dst) /\ NonDegenerate(src))
        => /\ pc = "returned"
           /\ Plain(result) = Plain(src)

\* C3: the transform applied to the normalized source is the matrix product
\* T = matSqrt(dst_cov) @ inverse(matSqrt(src_cov)) of the two matrices the call
\* computed from cov = norm @ norm^T + I, and element (c, k) of the result
\* before reshaping is (T @ src_norm)[c][k] * dst_std[c] + dst_mean[c].
C3_TransformAndTransfer ==
    pc = "returned" =>
        LET T  == MatMul(loc.sqrt_dst, loc.sqrt_src_inv)
            s  == StatsOf[Plain(src)]
            d  == StatsOf[Plain(dst)]
            n  == Numel(src.shape) \div 3
            TN == MatMul(T, s.norm)
        IN  /\ loc.trans = T
            /\ loc.dst_flat_cov_eye = EwAdd(MatMul(d.norm, Transpose(d.norm)), Eye3)
            /\ loc.src_flat_cov_eye = EwAdd(MatMul(s.norm, Transpose(s.norm)), Eye3)
            /\ [raised |-> FALSE, val |-> loc.sqrt_dst]
                  \in MatSqrtTable[loc.dst_flat_cov_eye]
            /\ [raised |-> FALSE, val |-> loc.sqrt_src]
                  \in MatSqrtTable[loc.src_flat_cov_eye]
            /\ [raised |-> FALSE, val |-> loc.sqrt_src_inv] \in Inverse(loc.sqrt_src)
            /\ \A c \in 1..3, k \in 1..n :
                  result.data[(c - 1) * n + k]
                     = Add(Mul(TN[c][k], d.std[c][1]), d.mean[c][1])

C3_Witness ==
    /\ pc = "returned"
    /\ ~HasNaN(loc.trans)
    /\ loc.trans # Eye3
    /\ Plain(src) # Plain(dst)
    /\ \E c \in 1..3 : loc.trans[c][c] # Zero /\ loc.dst_mean[c][1] # Zero

\* C4: for src and dst without a constant channel, each channel of the result
\* has the mean and the standard deviation of that channel of dst.
C4_MeanStdOfDst ==
    (pc = "returned" /\ NonDegenerate(src) /\ NonDegenerate(dst))
        => /\ Mean1(View3(result)) = loc.dst_mean
           /\ Std1(View3(result)) = loc.dst_std

\* C5: whenever color_match returns, the shape of the output is the shape of
\* src (and it holds as many elements), whatever the shape of dst.
C5_ShapeOfSrc ==
    pc = "returned" => /\ result.shape = src.shape
                       /\ Len(result.data) = Numel(src.shape)

C5_Witness ==
    /\ pc = "returned"
    /\ Numel(dst.shape) # Numel(src.shape)
    /\ result.shape = src.shape

\* C6: the accelerator branch is taken only when the cuda flag is set and an
\* accelerator is detected; with cuda=True and no accelerator the host branch
\* is taken and the call ends as the call with cuda=False on the same src and
\* dst can end.
C6_DeviceSelection ==
    /\ pc \notin {"call", "idle"} => (loc.cud <=> (cuda /\ available))
    /\ (Terminal /\ cuda /\ ~available) =>
          /\ ~loc.cud
          /\ [raised |-> pc = "raised",
              val |-> IF pc = "returned" THEN Plain(result) ELSE None]
                \in ColorMatch(src, dst, FALSE, available)

C6_Witness ==
    /\ pc = "returned" /\ cuda /\ ~available
    /\ ~HasNaN(View3(result))

\* C7 as stated: with a constant channel in src the call returns, and the
\* corresponding channel of the output holds non-finite values.
C7_ReturnsNonFinite ==
    (PastNormalize /\ Terminal /\ ConstantChannels(src) # {})
        => /\ pc = "returned"
           /\ \A c \in ConstantChannels(src) : \E k \in 1..Cols(View3(result)) :
                 View3(result)[c][k] = NaN

\* C7: with a constant channel in src, color_match makes no check and clamps
\* nothing: the channel of the normalized source is NaN, so is the covariance,
\* and the call either fails inside the decomposition or the inversion of the
\* library or returns a tensor whose corresponding channel holds NaN only.
C7_NaNOrLibraryError ==
    (PastNormalize /\ ConstantChannels(src) # {})
        => /\ \A c \in ConstantChannels(src) : \A k \in 1..Cols(loc.src_norm) :
                 loc.src_norm[c][k] = NaN
           /\ HasNaN(loc.src_flat_cov_eye)
           /\ pc = "raised" => loc.sqrt_dst = None \/ loc.sqrt_src = None
                                  \/ loc.sqrt_src_inv = None
           /\ pc = "returned" =>
                 \A c \in ConstantChannels(src) : \A k \in 1..Cols(View3(result)) :
                    View3(result)[c][k] = NaN

C7_Witness ==
    /\ pc = "returned"
    /\ ConstantChannels(src) # {}
    /\ ConstantChannels(src) # 1..3
    /\ NonDegenerate(dst)
    /\ \A c \in ConstantChannels(src) : View3(result)[c][1] = NaN

\* C8: color_match changes neither src nor dst, on success or on a raised
\* error, and the tensor it returns shares storage with neither.
C8_InputsUnchanged ==
    [][/\ src' = src
       /\ dst' = dst
       /\ pc' = "returned" => result'.base \notin {src.base, dst.base}]_vars

C8_Witness ==
    /\ pc = "returned"
    /\ Plain(result) # Plain(src)
    /\ result.base # src.base

\* C9: over a folder of n >= 1 files get(i) loads the file at position i mod n
\* of the listing fixed at construction; get(i) and get(i + n) load the same
\* file, n consecutive indices load each file once, size() returns n; with
\* n = 0 get(i) fails with a division by zero.
C9_GetCyclesThroughListing ==
    LET n == Cardinality(listed)
    IN  /\ {files[k] : k \in 1..Len(files)} = listed /\ Len(files) = n
        /\ size_ret # None => size_ret = <<n>>
        /\ \A i \in DOMAIN got :
              IF n = 0 THEN got[i].outcome = "ZeroDivisionError"
              ELSE /\ got[i].outcome # "ZeroDivisionError"
                   /\ \E q \in (-MaxIndex - 1)..MaxIndex, k \in 0..(n - 1) :
                         i = q * n + k /\ got[i].file = files[k + 1]
        /\ \A i \in DOMAIN got :
              (n >= 1 /\ i + n \in DOMAIN got) => got[i + n].file = got[i].file
        /\ \A a \in (-MaxIndex)..MaxIndex :
              (n >= 1 /\ a..(a + n - 1) \subseteq DOMAIN got)
                 => /\ {got[i].file : i \in a..(a + n - 1)} = listed
                    /\ \A i, j \in a..(a + n - 1) :
                          got[i].file = got[j].file => i = j

C9_Witness ==
    /\ Cardinality(listed) >= 2
    /\ folder # listed
    /\ size_ret = <<Cardinality(listed)>>
    /\ \E i \in DOMAIN got :
          /\ i < 0
          /\ i..(i + Cardinality(listed)) \subseteq DOMAIN got
          /\ got[i].outcome = "returned"

\* C10: init_vgg16 does nothing when vgg16.weight exists; otherwise it downloads
\* vgg16.t7 only if that is absent too, then converts it and writes
\* vgg16.weight.  After a call that returns vgg16.weight exists, and over the
\* calls on a folder that return the download and the conversion each run at
\* most once.
C10_InitOnce ==
    /\ last_init # None =>
          LET f == last_init.folder
              b == last_init.before
          IN  /\ b.weight => /\ ~last_init.downloaded /\ ~last_init.converted
                             /\ last_init.outcome = "returned"
                             /\ disk[f] = b
              /\ ~b.weight => /\ last_init.downloaded <=> (b.t7 = "absent")
                              /\ last_init.outcome = "returned"
                                    => last_init.converted /\ disk[f].t7 = "valid"
              /\ last_init.outcome = "returned" => disk[f].weight
    /\ \A f \in DOMAIN tally : tally[f].downloads <= 1 /\ tally[f].conversions <= 1

C10_Witness ==
    /\ last_init # None
    /\ last_init.before.weight
    /\ tally[last_init.folder].downloads = 1
    /\ tally[last_init.folder].conversions = 1

====
